---- MODULE Spec2Model ----
(***************************************************************************)
(* Manifest builder of ts-asr: the two LibriSpeechMix preparation          *)
(* routines, prepare_librispeechmix (mix-aware) and prepare_librispeech_mix *)
(* (simple, prebuilt mixed wav), as one state machine over a small file    *)
(* system.                                                                 *)
(*                                                                         *)
(* Times (delays, durations, trim_nontarget, start, duration) are integer  *)
(* ticks, TicksPerSecond = 2 * RatioDen to the second (half seconds are    *)
(* whole ticks); annotated durations are whole seconds, so that            *)
(* (1 - overlap_ratio) * duration is exact for overlap_ratio = k/RatioDen. *)
(* overlap_ratio is held as its numerator k.  Python's None is the empty   *)
(* tuple, a set optional value v is <<v>>.                                 *)
(***************************************************************************)
EXTENDS Integers, Sequences, FiniteSets, TLC

VARIABLES
    args,                  \* the call's arguments (routine, data_folder, splits, options)
    fs,                    \* the file system: path -> content
    fs0,                   \* the file system when the call was made (never changes)
    io,                    \* the file operations performed so far, in order
    pc,                    \* position in the routine
    err,                   \* None, or the exception that ended the run
    save_folder,           \* local: where manifests are written
    split_i,               \* grouping loop: index of the next split of args.splits
    group_names,           \* keys of `groups`, in insertion order
    groups,                \* category -> list of split names
    group_i,               \* index in group_names of the group being processed
    gsplit_i,              \* index of the next split of the current group
    line_i,                \* index of the next line of the open annotation file
    input_entry,           \* local: the parsed line
    texts,                 \* local: texts[:num_targets]
    speaker_profile_index, \* local: speaker_profile_index[:num_targets]
    wavs,                  \* local: rewritten wav paths (mixed_wav in the simple routine)
    duration0,             \* local of the simple routine: probed duration of mixed_wav
    delays,                \* local: reference (heap index) of the current delay list
    heap,                  \* the delay list objects; records hold references into it
    target_i,              \* index (0-based) of the next target of the current line
    output_entries,        \* local: ordered dict, a sequence of <<key, record>>
    emit_log,              \* history: every <<key, record>> assigned to output_entries
                           \* for the current group, by value, in processing order
    runs_left,             \* how many more times the caller will call the routine
    fs1                    \* None, or the file system when the previous call returned

vars == <<args, fs, fs0, io, pc, err, save_folder, split_i, group_names, groups,
          group_i, gsplit_i, line_i, input_entry, texts, speaker_profile_index,
          wavs, duration0, delays, heap, target_i, output_entries, emit_log,
          runs_left, fs1>>

(***************************************************************************)
(* Bounds of the model.                                                    *)
(***************************************************************************)
MaxSplits == 3     \* longest split list tried
MaxDelay == 2      \* largest annotated delay, in ticks
MaxSeconds == 2    \* longest annotated utterance, in seconds
MaxTrim == 2       \* largest trim_nontarget, in ticks
RatioDen == 2      \* overlap_ratio values are k/RatioDen

(***************************************************************************)
(* Python values.                                                          *)
(***************************************************************************)
None == <<>>

Some(v) == <<v>>

IsSet(o) == o # None

Val(o) == o[1]

Min2(a, b) == IF a <= b THEN a ELSE b

Max2(a, b) == IF a >= b THEN a ELSE b

\* max() of a non-empty list of numbers
RECURSIVE MaxOf(_)
MaxOf(s) == IF Len(s) = 1 THEN s[1] ELSE Max2(s[1], MaxOf(Tail(s)))

\* mutant of Slice: s[-n:], the trailing entries
SliceTrailing(s, n) ==
    IF ~IsSet(n) THEN s
    ELSE SubSeq(s, Len(s) - Min2(Val(n), Len(s)) + 1, Len(s))

\* mutant of Slice: s[:n + 1]
SliceOneMore(s, n) ==
    IF ~IsSet(n) THEN s
    ELSE IF Val(n) >= 0 THEN SubSeq(s, 1, Min2(Val(n) + 1, Len(s)))
    ELSE SubSeq(s, 1, Max2(0, Len(s) + Val(n) + 1))

\* s[:n]: n None keeps everything, n >= 0 keeps the n leading elements,
\* n < 0 drops the -n trailing ones
Slice(s, n) ==
    IF ~IsSet(n) THEN s
    ELSE IF Val(n) >= 0 THEN SubSeq(s, 1, Min2(Val(n), Len(s)))
    ELSE SubSeq(s, 1, Max2(0, Len(s) + Val(n)))

\* str.startswith
StartsWith(s, prefix) ==
    Len(s) >= Len(prefix) /\ SubSeq(s, 1, Len(prefix)) = prefix

EndsWith(s, suffix) ==
    Len(s) >= Len(suffix) /\ SubSeq(s, Len(s) - Len(suffix) + 1, Len(s)) = suffix

\* mutant of PathJoin: plain concatenation, no separator
PathConcat(a, b) == IF StartsWith(b, "/") THEN b ELSE a \o b

\* os.path.join(a, b) on POSIX
PathJoin(a, b) ==
    IF StartsWith(b, "/") THEN b
    ELSE IF a = "" \/ EndsWith(a, "/") THEN a \o b
    ELSE a \o "/" \o b

\* dict[k] = v on an insertion-ordered dict: a known key keeps its place
DictKeys(d) == {d[i][1] : i \in 1..Len(d)}

\* mutant of DictSet: d.setdefault(k, v), a known key keeps its value
DictSetDefault(d, k, v) ==
    IF k \in DictKeys(d) THEN d ELSE Append(d, <<k, v>>)

DictSet(d, k, v) ==
    IF k \in DictKeys(d)
    THEN [i \in 1..Len(d) |-> IF d[i][1] = k THEN <<k, v>> ELSE d[i]]
    ELSE Append(d, <<k, v>>)

\* zip(a, b): as long as the shorter
ZipLen(a, b) == Min2(Len(a), Len(b))

(***************************************************************************)
(* Exceptions.                                                             *)
(***************************************************************************)
ValueError(what, arg) == Some([type |-> "ValueError", what |-> what, arg |-> arg])

RuntimeError(path) == Some([type |-> "RuntimeError", what |-> "not found", arg |-> path])

(***************************************************************************)
(* Argument checks of prepare_librispeechmix, in the order of the code.    *)
(***************************************************************************)
\* mutant of OutOfRange: the bounds themselves are refused
OutOfRangeStrict(k) == k <= 0 \/ k >= RatioDen

\* `overlap_ratio < 0.0 or overlap_ratio > 1.0`, on the numerator k of k/RatioDen
OutOfRange(k) == k < 0 \/ k > RatioDen

\* mutant of BothSet: suppress_delay tested for truth, so that False counts as unset
BothSetSuppressTruthy(suppress_delay, overlap_ratio) ==
    suppress_delay = Some(TRUE) /\ IsSet(overlap_ratio)

\* mutant of BothSet: overlap_ratio tested for truth, so that 0.0 counts as unset
BothSetTruthy(suppress_delay, overlap_ratio) ==
    IsSet(suppress_delay) /\ IsSet(overlap_ratio) /\ Val(overlap_ratio) # 0

\* `suppress_delay is not None and overlap_ratio is not None`
BothSet(suppress_delay, overlap_ratio) == IsSet(suppress_delay) /\ IsSet(overlap_ratio)

\* mutant of ConfigError: the range of overlap_ratio is not checked
ConfigErrorNoRange(a) ==
    IF a.splits = <<>> THEN ValueError("splits", a.splits)
    ELSE IF BothSet(a.suppress_delay, a.overlap_ratio)
    THEN ValueError("suppress_delay/overlap_ratio", None)
    ELSE None

ConfigError(a) ==
    IF a.splits = <<>> THEN ValueError("splits", a.splits)
    ELSE IF BothSet(a.suppress_delay, a.overlap_ratio)
    THEN ValueError("suppress_delay/overlap_ratio", None)
    ELSE IF IsSet(a.overlap_ratio) /\ OutOfRange(Val(a.overlap_ratio))
    THEN ValueError("overlap_ratio", a.overlap_ratio)
    ELSE None

\* prepare_librispeech_mix checks the split list only
ConfigErrorSimple(a) ==
    IF a.splits = <<>> THEN ValueError("splits", a.splits) ELSE None

(***************************************************************************)
(* Grouping.                                                               *)
(***************************************************************************)
\* the if/elif chain of the mix-aware routine; None is the else branch
Category(split) ==
    IF StartsWith(split, "train") THEN Some("train")
    ELSE IF StartsWith(split, "dev") THEN Some("dev")
    ELSE IF StartsWith(split, "test") THEN Some("test")
    ELSE None

\* mutant of CategorySimple: the chain of the mix-aware routine, "train" included
CategoryAcceptsTrain(split) ==
    IF StartsWith(split, "train") THEN Some("train")
    ELSE IF StartsWith(split, "dev") THEN Some("dev")
    ELSE IF StartsWith(split, "test") THEN Some("test")
    ELSE None

\* the if/elif chain of the simple routine
CategorySimple(split) ==
    IF StartsWith(split, "dev") THEN Some("dev")
    ELSE IF StartsWith(split, "test") THEN Some("test")
    ELSE None

Categories == {"train", "dev", "test"}

\* mutant of AppendSplit: insert(0, split)
PrependSplit(list, split) == <<split>> \o list

\* groups[cat].append(split) on a defaultdict(list): the list after the call
AppendSplit(list, split) == Append(list, split)

\* the key order of the defaultdict after groups[cat] is touched
TouchKey(names, cat) ==
    IF \E i \in 1..Len(names) : names[i] = cat THEN names ELSE Append(names, cat)

(***************************************************************************)
(* Delays and window of one target (mix-aware routine).                    *)
(***************************************************************************)
\* mutant of SuppressedDelays: only the first delay is zeroed
SuppressedDelaysFirstOnly(d) == [i \in 1..Len(d) |-> IF i = 1 THEN 0 ELSE d[i]]

\* `[0.0 for _ in delays]`
SuppressedDelays(d) == [i \in 1..Len(d) |-> 0]

\* mutant of OverlapStart: overlap_ratio * target_duration
OverlapStartOfRatio(k, target_duration) == (k * target_duration) \div RatioDen

\* `overlap_start = (1 - overlap_ratio) * target_duration`
OverlapStart(k, target_duration) == ((RatioDen - k) * target_duration) \div RatioDen

\* `delays = [overlap_start] * len(wavs); delays[target_speaker_idx] = 0`
OverlapDelays(k, durations, t, nwavs) ==
    [i \in 1..nwavs |-> IF i = t + 1 THEN 0 ELSE OverlapStart(k, durations[t + 1])]

\* mutant of MaxDuration: the longest utterance, delays ignored
MaxDurationNoDelay(d, durations) ==
    MaxOf([i \in 1..ZipLen(d, durations) |-> durations[i]])

\* `max([d + x for d, x in zip(delays, durations)])`
MaxDuration(d, durations) ==
    MaxOf([i \in 1..ZipLen(d, durations) |-> d[i] + durations[i]])

\* mutant of TrimWindow: the duration is not capped by max_duration
TrimWindowUncapped(d, durations, t, trim, max_duration) ==
    LET start == d[t + 1]
        duration1 == durations[t + 1]
        new_start == Max2(0, start - trim)
        duration2 == duration1 + (start - new_start)
    IN  [start |-> start, duration |-> duration2 + trim]

\* mutant of TrimWindow: `duration = durations[target_speaker_idx]` is missing,
\* so the trim starts from the whole mixture's duration
TrimWindowFromMax(d, durations, t, trim, max_duration) ==
    LET start == d[t + 1]
        new_start == Max2(0, start - trim)
        duration2 == max_duration + (start - new_start)
        duration3 == Min2(duration2 + trim, max_duration)
    IN  [start |-> start, duration |-> duration3]

\* the body of `if trim_nontarget is not None:`; the emitted start and duration
TrimWindow(d, durations, t, trim, max_duration) ==
    LET start == d[t + 1]
        duration1 == durations[t + 1]
        new_start == Max2(0, start - trim)
        duration2 == duration1 + (start - new_start)
        duration3 == Min2(duration2 + trim, max_duration)
    IN  [start |-> start, duration |-> duration3]

\* start and duration of the record, trimmed or not
Window(d, durations, t, trim_nontarget) ==
    LET max_duration == MaxDuration(d, durations)
    IN  IF IsSet(trim_nontarget)
        THEN TrimWindow(d, durations, t, Val(trim_nontarget), max_duration)
        ELSE [start |-> 0, duration |-> max_duration]

\* mutant of IDText: the target index counted from 1
IDTextFromOne(ID, t) == ID \o "_text-" \o ToString(t + 1)

\* the record key: f"{ID}_text-{target_speaker_idx}" then f"{ID_text}_{enroll_wav}"
IDText(ID, t) == ID \o "_text-" \o ToString(t)

IDEnroll(ID_text, enroll_wav) == ID_text \o "_" \o enroll_wav

\* the enrollment loop of the mix-aware routine over enroll_wavs[:num_enrolls]
RECURSIVE EmitEnrolls(_, _, _, _)
EmitEnrolls(entries, enroll_wavs, ID_text, rec) ==
    IF enroll_wavs = <<>> THEN entries
    ELSE EmitEnrolls(
            DictSet(entries, IDEnroll(ID_text, Head(enroll_wavs)),
                    [rec EXCEPT !.enroll_wav = PathJoin("{DATA_ROOT}", Head(enroll_wavs))]),
            Tail(enroll_wavs), ID_text, rec)

\* the enrollment loop of the simple routine
RECURSIVE EmitEnrollsSimple(_, _, _, _)
EmitEnrollsSimple(entries, enroll_wavs, ID_text, rec) ==
    IF enroll_wavs = <<>> THEN entries
    ELSE EmitEnrollsSimple(
            DictSet(entries, IDEnroll(ID_text, Head(enroll_wavs)),
                    [rec EXCEPT !.enroll_wav =
                        PathJoin(PathJoin("{DATA_ROOT}", "data"), Head(enroll_wavs))]),
            Tail(enroll_wavs), ID_text, rec)

\* the <<key, record>> pairs the enrollment loop assigns, one per iteration,
\* with the paths joined under `root`
NewEntries(enroll_wavs, ID_text, rec, root) ==
    [i \in 1..Len(enroll_wavs) |->
        <<IDEnroll(ID_text, enroll_wavs[i]),
          [rec EXCEPT !.enroll_wav = PathJoin(root, enroll_wavs[i])]>>]

\* json.dump of the accumulated entries: references are written by value
Serialize(entries, h) ==
    [i \in 1..Len(entries) |->
        <<entries[i][1],
          IF "delays" \in DOMAIN entries[i][2]
          THEN [entries[i][2] EXCEPT !.delays = h[entries[i][2].delays]]
          ELSE entries[i][2]>>]

\* mutant of NewList: the current list object is overwritten in place
NewListInPlace(h, ref, value) == [heap |-> [h EXCEPT ![ref] = value], ref |-> ref]

\* a list display or comprehension binds a fresh list object
NewList(h, ref, value) == [heap |-> Append(h, value), ref |-> Len(h) + 1]

(***************************************************************************)
(* Paths.                                                                  *)
(***************************************************************************)
\* the annotation file of a split
InputJsonl(a, split) ==
    IF a.routine = "mix"
    THEN PathJoin(a.data_folder, split \o ".jsonl")
    ELSE PathJoin(PathJoin(a.data_folder, "list"), split \o ".jsonl")

\* the manifest of a category
OutputJson(folder, group_name) == PathJoin(folder, group_name \o ".json")

\* the audio file probed by the simple routine
MixedWavPath(a, mixed_wav) == PathJoin(PathJoin(a.data_folder, "data"), mixed_wav)

\* mutant of WriteFile: open(path, "a"), the document is added to the file
WriteFileAppend(f, path, doc) ==
    [p \in DOMAIN f \cup {path} |->
        IF p = path THEN (IF path \in DOMAIN f THEN f[path] \o doc ELSE doc) ELSE f[p]]

\* the file system after open(path, "w") and json.dump
WriteFile(f, path, doc) ==
    [p \in DOMAIN f \cup {path} |-> IF p = path THEN doc ELSE f[p]]

(***************************************************************************)
(* Inputs: annotation records, files and arguments.                        *)
(***************************************************************************)
TicksPerSecond == 2 * RatioDen

Sec(j) == j * TicksPerSecond

WavNames == <<"a.flac", "b.flac", "c.flac">>

EnrollNames == <<"ea.flac", "eb.flac", "ec.flac">>

Words == <<"HELLO WORLD", "GOOD MORNING", "SO LONG">>

\* an annotation record of n speakers with nt targets; speaker i has the
\* enrollment utterances prof[i]
Annotation(id, n, nt, dl, du, prof) ==
    [id |-> id,
     mixed_wav |-> id \o ".wav",
     wavs |-> SubSeq(WavNames, 1, n),
     texts |-> SubSeq(Words, 1, nt),
     speaker_profile |-> prof,
     speaker_profile_index |-> [i \in 1..nt |-> i - 1],
     delays |-> dl,
     durations |-> du]

OneEnroll(n) == [i \in 1..n |-> <<EnrollNames[i]>>]

TwoEnrolls(n) == [i \in 1..n |-> <<EnrollNames[i], "x" \o EnrollNames[i]>>]

SplitNames == {"train-2mix", "dev-clean-1mix", "dev-clean-2mix", "test-clean-2mix",
               "valid-2mix"}

ValidSplitNames == {s \in SplitNames : IsSet(Category(s))}

\* the lines of the annotation file of each split of the fixed data folder
AnnotLines(split) ==
    CASE split = "train-2mix" ->
            <<Annotation("tr2-0", 2, 2, <<0, 1>>, <<Sec(1), Sec(2)>>, TwoEnrolls(2))>>
      [] split = "dev-clean-1mix" ->
            <<Annotation("dev1-0", 1, 1, <<0>>, <<Sec(1)>>, OneEnroll(1))>>
      [] split = "dev-clean-2mix" ->
            <<Annotation("dev2-0", 2, 2, <<1, 0>>, <<Sec(1), Sec(1)>>, OneEnroll(2)),
              Annotation("dev2-1", 2, 1, <<0, 2>>, <<Sec(2), Sec(1)>>, TwoEnrolls(2))>>
      [] split = "test-clean-2mix" ->
            <<Annotation("test2-0", 2, 2, <<0, 1>>, <<Sec(1), Sec(1)>>, OneEnroll(2))>>

\* torchaudio.info of a mixed wav (external probe): every mixed wav of the
\* data folder is 3 s of 16 kHz audio
AudioInfo(path) == [num_frames |-> 48000, sample_rate |-> 16000]

\* `info.num_frames / info.sample_rate`, in ticks
ProbeDuration(path) ==
    (AudioInfo(path).num_frames * TicksPerSecond) \div AudioInfo(path).sample_rate

\* a manifest left by an earlier run
StaleManifest == <<<<"old_text-0_e.flac", [wrd |-> "OLD"]>>>>

\* a data folder "LSM" holding the annotation files `lines` (split -> lines,
\* in the layout of both routines) and a stale dev.json
DataFolder(lines) ==
    LET mixPath(s) == PathJoin("LSM", s \o ".jsonl")
        simplePath(s) == PathJoin("LSM/list", s \o ".jsonl")
        jsonl == {mixPath(s) : s \in DOMAIN lines} \cup {simplePath(s) : s \in DOMAIN lines}
    IN  [p \in jsonl \cup {"LSM/dev.json"} |->
            IF p = "LSM/dev.json" THEN StaleManifest
            ELSE lines[CHOOSE s \in DOMAIN lines : p \in {mixPath(s), simplePath(s)}]]

\* the fixed data folder, with the annotation files of `present`
FixedFolder(present) == DataFolder([s \in present |-> AnnotLines(s)])

Optional(S) == {None} \cup {Some(v) : v \in S}

\* all lists of at most n elements of S
RECURSIVE ListsUpTo(_, _)
ListsUpTo(S, n) ==
    IF n = 0 THEN {<<>>}
    ELSE LET shorter == ListsUpTo(S, n - 1)
         IN  shorter \cup {Append(l, x) : l \in shorter, x \in S}

NoOptions ==
    [num_targets |-> None, num_enrolls |-> None, trim_nontarget |-> None,
     suppress_delay |-> None, overlap_ratio |-> None]

Args(routine, save, splits, o) ==
    [routine |-> routine, data_folder |-> "LSM", save_folder |-> save, splits |-> splits,
     num_targets |-> o.num_targets, num_enrolls |-> o.num_enrolls,
     trim_nontarget |-> o.trim_nontarget, suppress_delay |-> o.suppress_delay,
     overlap_ratio |-> o.overlap_ratio]

\* the delay settings the argument checks accept
DelayModes ==
    {[suppress_delay |-> s, overlap_ratio |-> None] : s \in Optional(BOOLEAN)}
    \cup {[suppress_delay |-> None, overlap_ratio |-> Some(k)] : k \in 0..RatioDen}

\* every delay setting, accepted or not
AllDelayModes ==
    {[suppress_delay |-> s, overlap_ratio |-> r] :
        s \in Optional(BOOLEAN), r \in Optional(-1..(RatioDen + 1))}

\* grouping: any split list, either routine, either save folder, no options
InitGrouping ==
    \E splits \in ListsUpTo(SplitNames, MaxSplits), routine \in {"mix", "simple"},
       save \in {None, Some("out")} :
        /\ routine = "simple" => save = None
        /\ args = Args(routine, save, splits, NoOptions)
        /\ runs_left = 0
        /\ fs = FixedFolder(ValidSplitNames)

\* argument checks: short split lists under every delay setting
InitConfig ==
    \E splits \in ListsUpTo({"dev-clean-2mix", "valid-2mix"}, 2), m \in AllDelayModes,
       trim \in {None, Some(1)} :
        /\ args = Args("mix", None, splits,
                       [NoOptions EXCEPT !.suppress_delay = m.suppress_delay,
                                         !.overlap_ratio = m.overlap_ratio,
                                         !.trim_nontarget = trim])
        /\ runs_left = 0
        /\ fs = FixedFolder(ValidSplitNames)

\* a data folder lacking the annotation file of one split
InitMissing ==
    \E splits \in ListsUpTo(ValidSplitNames, MaxSplits), missing \in ValidSplitNames,
       routine \in {"mix", "simple"} :
        /\ args = Args(routine, None, splits, NoOptions)
        /\ runs_left = 0
        /\ fs = FixedFolder(ValidSplitNames \ {missing})

\* a trim_nontarget no shorter than any mixture of the model: the annotated
\* delays are at most MaxDelay, the rewritten ones at most Sec(MaxSeconds)
LongTrim == 2 * Sec(MaxSeconds) + MaxDelay

\* the window: one mixture of 1 to 3 speakers (as many as the "-Nmix" splits
\* hold) with any annotated delays and durations (a third speaker speaks
\* for 1 s, at once or after the largest delay), under every accepted
\* delay setting and every trim
InitWindow ==
    \E n \in 1..3, m \in DelayModes, trim \in Optional(0..MaxTrim \cup {LongTrim}) :
      \E dl \in [1..n -> 0..MaxDelay], du \in [1..n -> {Sec(j) : j \in 1..MaxSeconds}] :
        /\ n = 3 => (dl[3] \in {0, MaxDelay} /\ du[3] = Sec(1))
        /\ args = Args("mix", None, <<"dev-clean-2mix">>,
                       [NoOptions EXCEPT !.suppress_delay = m.suppress_delay,
                                         !.overlap_ratio = m.overlap_ratio,
                                         !.trim_nontarget = trim])
        /\ runs_left = 0
        /\ fs = DataFolder([s \in {"dev-clean-2mix"} |->
                                <<Annotation("mix1", n, n, dl, du, OneEnroll(n))>>])

\* caps: num_targets and num_enrolls on the fixed data folder
InitCaps ==
    \E nt \in Optional(1..3), ne \in Optional(1..3), routine \in {"mix"},
       splits \in {<<"train-2mix">>, <<"dev-clean-2mix", "dev-clean-1mix">>} :
        /\ args = Args(routine, None, splits,
                       [NoOptions EXCEPT !.num_targets = nt, !.num_enrolls = ne])
        /\ runs_left = 0
        /\ fs = FixedFolder(ValidSplitNames)

\* the worked example of the specification: delays 0.0 and 1.5 s, durations
\* 2.0 s, one target with one enrollment utterance
ExampleRecord ==
    [id |-> "mix1",
     mixed_wav |-> "mix1.wav",
     wavs |-> <<"a.wav", "b.wav">>,
     texts |-> <<"HELLO WORLD">>,
     speaker_profile |-> <<<<"enr1.wav">>>>,
     speaker_profile_index |-> <<0>>,
     delays |-> <<0, 3 * RatioDen>>,
     durations |-> <<Sec(2), Sec(2)>>]

InitExample ==
    /\ args = Args("mix", None, <<"dev-clean-2mix">>, NoOptions)
    /\ runs_left = 0
    /\ fs = DataFolder([s \in {"dev-clean-2mix"} |-> <<ExampleRecord>>])

\* a data folder whose records collide: mixture "dup-0" has the same
\* enrollment utterance twice for its first speaker, and occurs in both dev
\* files (with other texts) and in the test file
CollidingLines(split) ==
    LET first == [Annotation("dup-0", 2, 2, <<0, 1>>, <<Sec(1), Sec(1)>>, OneEnroll(2))
                    EXCEPT !.speaker_profile = <<<<"ea.flac", "ea.flac">>, <<"eb.flac">>>>]
        again == [Annotation("dup-0", 2, 2, <<0, 1>>, <<Sec(1), Sec(1)>>, OneEnroll(2))
                    EXCEPT !.texts = <<"SO LONG", "GOOD MORNING">>]
    IN  CASE split = "dev-clean-1mix" -> <<first>>
          [] split = "dev-clean-2mix" ->
                <<again, Annotation("dev2-1", 2, 1, <<0, 2>>, <<Sec(2), Sec(1)>>, OneEnroll(2))>>
          [] split = "test-clean-2mix" -> <<first>>

CollidingSplits == {"dev-clean-1mix", "dev-clean-2mix", "test-clean-2mix"}

InitCollide ==
    \E splits \in ListsUpTo(CollidingSplits, MaxSplits), routine \in {"mix", "simple"} :
        /\ args = Args(routine, None, splits, NoOptions)
        /\ runs_left = 0
        /\ fs = DataFolder([s \in CollidingSplits |-> CollidingLines(s)])

\* the routine is called twice with the same arguments on the same folder
InitTwice ==
    \E splits \in ListsUpTo(ValidSplitNames, 2), routine \in {"mix", "simple"},
       save \in {None, Some("out")},
       o \in {NoOptions,
              [NoOptions EXCEPT !.suppress_delay = Some(TRUE)],
              [NoOptions EXCEPT !.overlap_ratio = Some(1), !.trim_nontarget = Some(1)]} :
        /\ routine = "simple" => (save = None /\ o = NoOptions)
        /\ args = Args(routine, save, splits, o)
        /\ runs_left = 1
        /\ fs = FixedFolder(ValidSplitNames)

\* full overlap asked for in either way, overlap_ratio = 1 or suppress_delay,
\* under caps and trims, on the fixed data folder
InitFullOverlap ==
    \E m \in {[suppress_delay |-> Some(TRUE), overlap_ratio |-> None],
               [suppress_delay |-> None, overlap_ratio |-> Some(RatioDen)]},
       nt \in Optional(1..2), ne \in Optional(1..2), trim \in {None, Some(1)},
       splits \in {<<"train-2mix">>, <<"dev-clean-2mix", "test-clean-2mix">>} :
        /\ args = Args("mix", None, splits,
                       [num_targets |-> nt, num_enrolls |-> ne, trim_nontarget |-> trim,
                        suppress_delay |-> m.suppress_delay,
                        overlap_ratio |-> m.overlap_ratio])
        /\ runs_left = 0
        /\ fs = FixedFolder(ValidSplitNames)

Init ==
    /\ \/ InitGrouping
       \/ InitConfig
       \/ InitMissing
       \/ InitWindow
       \/ InitCaps
       \/ InitExample
       \/ InitCollide
       \/ InitTwice
       \/ InitFullOverlap
    /\ fs0 = fs
    /\ io = <<>>
    /\ pc = "check"
    /\ err = None
    /\ save_folder = None
    /\ split_i = 1
    /\ group_names = <<>>
    /\ groups = [c \in Categories |-> <<>>]
    /\ group_i = 1
    /\ gsplit_i = 1
    /\ line_i = 1
    /\ input_entry = None
    /\ texts = <<>>
    /\ speaker_profile_index = <<>>
    /\ wavs = <<>>
    /\ duration0 = 0
    /\ delays = 0
    /\ heap = <<>>
    /\ target_i = 0
    /\ output_entries = <<>>
    /\ emit_log = <<>>
    /\ fs1 = None

(***************************************************************************)
(* The routines, step by step.                                             *)
(***************************************************************************)
Raise(e) ==
    /\ err' = e
    /\ pc' = "failed"

\* the current group and the annotation file being read
Group == groups[group_names[group_i]]

CurrentPath == InputJsonl(args, Group[gsplit_i])

\* `if not save_folder`: None and "" are falsy
Falsy(o) == ~IsSet(o) \/ Val(o) = ""

\* prepare_librispeechmix: save_folder default and the argument checks
Validate ==
    /\ pc = "check"
    /\ args.routine = "mix"
    /\ save_folder' = IF Falsy(args.save_folder) THEN Some(args.data_folder)
                      ELSE args.save_folder
    /\ IF IsSet(ConfigError(args))
       THEN Raise(ConfigError(args))
       ELSE pc' = "grouping" /\ err' = err
    /\ UNCHANGED <<args, runs_left, fs1, emit_log, fs, fs0, io, split_i, group_names, groups, group_i, gsplit_i,
                   line_i, input_entry, texts, speaker_profile_index, wavs, duration0,
                   delays, heap, target_i, output_entries>>

\* prepare_librispeech_mix: the split list check; manifests go to data_folder
ValidateSimple ==
    /\ pc = "check"
    /\ args.routine = "simple"
    /\ save_folder' = Some(args.data_folder)
    /\ IF IsSet(ConfigErrorSimple(args))
       THEN Raise(ConfigErrorSimple(args))
       ELSE pc' = "grouping" /\ err' = err
    /\ UNCHANGED <<args, runs_left, fs1, emit_log, fs, fs0, io, split_i, group_names, groups, group_i, gsplit_i,
                   line_i, input_entry, texts, speaker_profile_index, wavs, duration0,
                   delays, heap, target_i, output_entries>>

\* one iteration of the grouping loop with the category chain `category`
GroupStep(category) ==
    LET split == args.splits[split_i]
        c == category
    IN  /\ IF IsSet(c)
           THEN /\ groups' = [groups EXCEPT ![Val(c)] = AppendSplit(@, split)]
                /\ group_names' = TouchKey(group_names, Val(c))
                /\ split_i' = split_i + 1
                /\ pc' = IF split_i = Len(args.splits) THEN "groups" ELSE "grouping"
                /\ err' = err
           ELSE /\ Raise(ValueError("split", split))
                /\ UNCHANGED <<groups, group_names, split_i>>
        /\ UNCHANGED <<args, runs_left, fs1, emit_log, fs, fs0, io, save_folder, group_i, gsplit_i, line_i,
                       input_entry, texts, speaker_profile_index, wavs, duration0,
                       delays, heap, target_i, output_entries>>

GroupSplit ==
    /\ pc = "grouping"
    /\ args.routine = "mix"
    /\ GroupStep(Category(args.splits[split_i]))

GroupSplitSimple ==
    /\ pc = "grouping"
    /\ args.routine = "simple"
    /\ GroupStep(CategorySimple(args.splits[split_i]))

\* mutant of NextGroup: output_entries is created once, before the group loop
NextGroupKeepsEntries ==
    /\ pc = "groups"
    /\ group_i <= Len(group_names)
    /\ emit_log' = <<>>
    /\ gsplit_i' = 1
    /\ pc' = "splits"
    /\ UNCHANGED <<args, runs_left, fs1, fs, fs0, io, err, save_folder, split_i, group_names,
                   groups, group_i, line_i, input_entry, texts, speaker_profile_index,
                   wavs, duration0, delays, target_i, output_entries, heap>>

\* mutant of NextGroup: the manifest is opened for writing before the group's
\* splits are read
NextGroupTruncates ==
    /\ pc = "groups"
    /\ group_i <= Len(group_names)
    /\ output_entries' = <<>>
    /\ emit_log' = <<>>
    /\ heap' = <<>>
    /\ gsplit_i' = 1
    /\ pc' = "splits"
    /\ fs' = WriteFile(fs, OutputJson(Val(save_folder), group_names[group_i]), <<>>)
    /\ UNCHANGED <<args, runs_left, fs1, fs0, io, err, save_folder, split_i, group_names, groups,
                   group_i, line_i, input_entry, texts, speaker_profile_index, wavs,
                   duration0, delays, target_i>>

\* head of `for group_name, group in groups.items()`: the next group starts
\* with empty output_entries
NextGroup ==
    /\ pc = "groups"
    /\ group_i <= Len(group_names)
    /\ output_entries' = <<>>
    /\ emit_log' = <<>>
    /\ heap' = <<>>
    /\ gsplit_i' = 1
    /\ pc' = "splits"
    /\ UNCHANGED <<args, runs_left, fs1, fs, fs0, io, err, save_folder, split_i, group_names, groups,
                   group_i, line_i, input_entry, texts, speaker_profile_index, wavs,
                   duration0, delays, target_i>>

\* every group is written: "Done!"
Finish ==
    /\ pc = "groups"
    /\ group_i > Len(group_names)
    /\ pc' = "done"
    /\ UNCHANGED <<args, runs_left, fs1, emit_log, fs, fs0, io, err, save_folder, split_i, group_names, groups,
                   group_i, gsplit_i, line_i, input_entry, texts, speaker_profile_index,
                   wavs, duration0, delays, heap, target_i, output_entries>>

\* head of `for split in group`: the existence check and open()
OpenSplit ==
    /\ pc = "splits"
    /\ gsplit_i <= Len(Group)
    /\ IF CurrentPath \in DOMAIN fs
       THEN /\ io' = io \o <<<<"exists", CurrentPath>>, <<"open", CurrentPath>>>>
            /\ line_i' = 1
            /\ pc' = "lines"
            /\ err' = err
       ELSE /\ io' = Append(io, <<"exists", CurrentPath>>)
            /\ Raise(RuntimeError(CurrentPath))
            /\ line_i' = line_i
    /\ UNCHANGED <<args, runs_left, fs1, emit_log, fs, fs0, save_folder, split_i, group_names, groups, group_i,
                   gsplit_i, input_entry, texts, speaker_profile_index, wavs, duration0,
                   delays, heap, target_i, output_entries>>

\* end of the annotation file
CloseSplit ==
    /\ pc = "lines"
    /\ line_i > Len(fs[CurrentPath])
    /\ gsplit_i' = gsplit_i + 1
    /\ pc' = "splits"
    /\ UNCHANGED <<args, runs_left, fs1, emit_log, fs, fs0, io, err, save_folder, split_i, group_names, groups,
                   group_i, line_i, input_entry, texts, speaker_profile_index, wavs,
                   duration0, delays, heap, target_i, output_entries>>

\* mutant of ReadLine: the delay list of the previous line is kept when it
\* has the length of the new one
ReadLineKeepsDelays ==
    /\ pc = "lines"
    /\ args.routine = "mix"
    /\ line_i <= Len(fs[CurrentPath])
    /\ LET e == fs[CurrentPath][line_i]
           kept == delays \in 1..Len(heap) /\ Len(heap[delays]) = Len(e.delays)
       IN  /\ input_entry' = Some(e)
           /\ texts' = Slice(e.texts, args.num_targets)
           /\ speaker_profile_index' = Slice(e.speaker_profile_index, args.num_targets)
           /\ wavs' = [i \in 1..Len(e.wavs) |-> PathJoin("{DATA_ROOT}", e.wavs[i])]
           /\ heap' = Append(heap, IF kept THEN heap[delays] ELSE e.delays)
           /\ delays' = Len(heap) + 1
    /\ target_i' = 0
    /\ pc' = "targets"
    /\ UNCHANGED <<args, runs_left, fs1, emit_log, fs, fs0, io, err, save_folder, split_i,
                   group_names, groups, group_i, gsplit_i, line_i, duration0,
                   output_entries>>

\* mix-aware routine: parse a line and bind the locals
ReadLine ==
    /\ pc = "lines"
    /\ args.routine = "mix"
    /\ line_i <= Len(fs[CurrentPath])
    /\ LET e == fs[CurrentPath][line_i]
       IN  /\ input_entry' = Some(e)
           /\ texts' = Slice(e.texts, args.num_targets)
           /\ speaker_profile_index' = Slice(e.speaker_profile_index, args.num_targets)
           /\ wavs' = [i \in 1..Len(e.wavs) |-> PathJoin("{DATA_ROOT}", e.wavs[i])]
           /\ heap' = Append(heap, e.delays)
           /\ delays' = Len(heap) + 1
    /\ target_i' = 0
    /\ pc' = "targets"
    /\ UNCHANGED <<args, runs_left, fs1, emit_log, fs, fs0, io, err, save_folder, split_i, group_names, groups,
                   group_i, gsplit_i, line_i, duration0, output_entries>>

\* simple routine: parse a line, probe the mixed wav and bind the locals
ReadLineSimple ==
    /\ pc = "lines"
    /\ args.routine = "simple"
    /\ line_i <= Len(fs[CurrentPath])
    /\ LET e == fs[CurrentPath][line_i]
       IN  /\ input_entry' = Some(e)
           /\ texts' = e.texts
           /\ speaker_profile_index' = e.speaker_profile_index
           /\ duration0' = ProbeDuration(MixedWavPath(args, e.mixed_wav))
           /\ io' = Append(io, <<"info", MixedWavPath(args, e.mixed_wav)>>)
           /\ wavs' = PathJoin(PathJoin("{DATA_ROOT}", "data"), e.mixed_wav)
    /\ target_i' = 0
    /\ pc' = "targets"
    /\ UNCHANGED <<args, runs_left, fs1, emit_log, fs, fs0, err, save_folder, split_i, group_names, groups,
                   group_i, gsplit_i, line_i, delays, heap, output_entries>>

\* mix-aware routine: one iteration of the target loop, enrollment loop included
ExpandTarget ==
    /\ pc = "targets"
    /\ args.routine = "mix"
    /\ target_i < ZipLen(texts, speaker_profile_index)
    /\ LET e == Val(input_entry)
           t == target_i
           text == texts[t + 1]
           idx == speaker_profile_index[t + 1]
           s1 == IF args.suppress_delay = Some(TRUE)
                 THEN NewList(heap, delays, SuppressedDelays(heap[delays]))
                 ELSE [heap |-> heap, ref |-> delays]
           s2 == IF IsSet(args.overlap_ratio)
                 THEN NewList(s1.heap, s1.ref,
                              OverlapDelays(Val(args.overlap_ratio), e.durations, t,
                                            Len(wavs)))
                 ELSE s1
           w == Window(s2.heap[s2.ref], e.durations, t, args.trim_nontarget)
           enroll_wavs == e.speaker_profile[idx + 1]
           rec == [wavs |-> wavs, enroll_wav |-> "", delays |-> s2.ref,
                   start |-> w.start, duration |-> w.duration,
                   target_speaker_idx |-> t, wrd |-> text]
       IN  /\ heap' = s2.heap
           /\ delays' = s2.ref
           /\ output_entries' = EmitEnrolls(output_entries,
                                            Slice(enroll_wavs, args.num_enrolls),
                                            IDText(e.id, t), rec)
           /\ emit_log' = emit_log \o
                    Serialize(NewEntries(Slice(enroll_wavs, args.num_enrolls),
                                         IDText(e.id, t), rec, "{DATA_ROOT}"),
                              s2.heap)
    /\ target_i' = target_i + 1
    /\ UNCHANGED <<args, runs_left, fs1, fs, fs0, io, pc, err, save_folder, split_i, group_names, groups,
                   group_i, gsplit_i, line_i, input_entry, texts, speaker_profile_index,
                   wavs, duration0>>

\* simple routine: one iteration of the target loop, enrollment loop included
ExpandTargetSimple ==
    /\ pc = "targets"
    /\ args.routine = "simple"
    /\ target_i < ZipLen(texts, speaker_profile_index)
    /\ LET e == Val(input_entry)
           i == target_i
           enroll_wavs == e.speaker_profile[speaker_profile_index[i + 1] + 1]
           rec == [mixed_wav |-> wavs, enroll_wav |-> "",
                   transcription |-> texts[i + 1], duration |-> duration0]
       IN  /\ output_entries' = EmitEnrollsSimple(output_entries, enroll_wavs,
                                                  IDText(e.id, i), rec)
           /\ emit_log' = emit_log \o
                    NewEntries(enroll_wavs, IDText(e.id, i), rec,
                               PathJoin("{DATA_ROOT}", "data"))
    /\ target_i' = target_i + 1
    /\ UNCHANGED <<args, runs_left, fs1, fs, fs0, io, pc, err, save_folder, split_i, group_names, groups,
                   group_i, gsplit_i, line_i, input_entry, texts, speaker_profile_index,
                   wavs, duration0, delays, heap>>

\* every target of the line is expanded
NextLine ==
    /\ pc = "targets"
    /\ target_i >= ZipLen(texts, speaker_profile_index)
    /\ line_i' = line_i + 1
    /\ pc' = "lines"
    /\ UNCHANGED <<args, runs_left, fs1, emit_log, fs, fs0, io, err, save_folder, split_i, group_names, groups,
                   group_i, gsplit_i, input_entry, texts, speaker_profile_index, wavs,
                   duration0, delays, heap, target_i, output_entries>>

\* every split of the group is read: write the group's manifest
WriteJSON ==
    /\ pc = "splits"
    /\ gsplit_i > Len(Group)
    /\ LET output_json == OutputJson(Val(save_folder), group_names[group_i])
       IN  /\ fs' = WriteFile(fs, output_json, Serialize(output_entries, heap))
           /\ io' = Append(io, <<"write", output_json>>)
    /\ group_i' = group_i + 1
    /\ pc' = "groups"
    /\ UNCHANGED <<args, runs_left, fs1, emit_log, fs0, err, save_folder, split_i, group_names, groups, gsplit_i,
                   line_i, input_entry, texts, speaker_profile_index, wavs, duration0,
                   delays, heap, target_i, output_entries>>

\* the caller (the training script) calls the routine again with the same
\* arguments: every local is bound afresh, the files stay
Rerun ==
    /\ pc = "done"
    /\ runs_left > 0
    /\ runs_left' = runs_left - 1
    /\ fs1' = Some(fs)
    /\ fs0' = fs
    /\ io' = <<>>
    /\ pc' = "check"
    /\ save_folder' = None
    /\ split_i' = 1
    /\ group_names' = <<>>
    /\ groups' = [c \in Categories |-> <<>>]
    /\ group_i' = 1
    /\ gsplit_i' = 1
    /\ line_i' = 1
    /\ input_entry' = None
    /\ texts' = <<>>
    /\ speaker_profile_index' = <<>>
    /\ wavs' = <<>>
    /\ duration0' = 0
    /\ delays' = 0
    /\ heap' = <<>>
    /\ target_i' = 0
    /\ output_entries' = <<>>
    /\ emit_log' = <<>>
    /\ UNCHANGED <<args, fs, err>>

Next ==
    \/ Validate
    \/ ValidateSimple
    \/ GroupSplit
    \/ GroupSplitSimple
    \/ NextGroup
    \/ OpenSplit
    \/ ReadLine
    \/ ReadLineSimple
    \/ ExpandTarget
    \/ ExpandTargetSimple
    \/ NextLine
    \/ CloseSplit
    \/ WriteJSON
    \/ Finish
    \/ Rerun

Spec == Init /\ [][Next]_vars

(***************************************************************************)
(* What the properties speak of.                                           *)
(***************************************************************************)
Elements(seq) == {seq[i] : i \in 1..Len(seq)}

\* the manifests written by this run
Written == {io[i][2] : i \in {j \in 1..Len(io) : io[j][1] = "write"}}

\* the files opened for reading by this run
Opened == {io[i][2] : i \in {j \in 1..Len(io) : io[j][1] = "open"}}

\* every <<key, record>> emitted so far: written, or accumulated for the
\* current group (as json.dump would write it now)
Emitted ==
    UNION {Elements(fs[p]) : p \in Written} \cup Elements(Serialize(output_entries, heap))

MixEmitted == IF args.routine = "mix" THEN Emitted ELSE {}

\* every annotation record of the data folder
AllAnnotations ==
    UNION {Elements(fs0[p]) : p \in {q \in DOMAIN fs0 : EndsWith(q, ".jsonl")}}

\* the annotation record an emitted <<key, record>> of the mix-aware routine
\* was derived from
Source(kr) ==
    CHOOSE a \in AllAnnotations :
        StartsWith(kr[1], IDText(a.id, kr[2].target_speaker_idx) \o "_")

Failed(type) == pc = "failed" /\ IsSet(err) /\ Val(err).type = type

PastCheck == pc # "check"

(***************************************************************************)
(* C1: with trim_nontarget = T set, every record emitted for target t has  *)
(* start = max(0, delays[t] - T) on the delays stored in the record.       *)
(* The code emits start = delays[t]: new_start only enters the duration.   *)
(***************************************************************************)
C1_StartIsNewStart ==
    (args.routine = "mix" /\ IsSet(args.trim_nontarget)) =>
        \A kr \in MixEmitted :
            kr[2].start =
                Max2(0, kr[2].delays[kr[2].target_speaker_idx + 1] - Val(args.trim_nontarget))

(***************************************************************************)
(* C2: with trim_nontarget = T set, the window [start, start + duration]   *)
(* of every record begins at most T before the target's onset and ends at  *)
(* most T after the target's end.  With start = delays[t] and the lead-in  *)
(* added to the duration, the code's window ends up to 2T after it.        *)
(***************************************************************************)
C2_WindowWithinTrim ==
    (args.routine = "mix" /\ IsSet(args.trim_nontarget)) =>
        \A kr \in MixEmitted :
            LET t == kr[2].target_speaker_idx + 1
                T == Val(args.trim_nontarget)
                onset == kr[2].delays[t]
                end == onset + Source(kr).durations[t]
            IN  /\ kr[2].start >= onset - T
                /\ kr[2].start + kr[2].duration <= end + T

(***************************************************************************)
(* C3: with trim_nontarget = 0, every record emitted for target t has      *)
(* start = delays[t] and duration = durations[t].                          *)
(***************************************************************************)
C3_ZeroTrimIsTargetSpan ==
    (args.routine = "mix" /\ args.trim_nontarget = Some(0)) =>
        \A kr \in MixEmitted :
            LET t == kr[2].target_speaker_idx + 1
            IN  /\ kr[2].start = kr[2].delays[t]
                /\ kr[2].duration = Source(kr).durations[t]

\* a record of a later-starting target, shorter than its mixture, emitted
\* with trim_nontarget = 0
C3_Witness ==
    /\ args.routine = "mix"
    /\ args.trim_nontarget = Some(0)
    /\ \E kr \in MixEmitted :
        LET t == kr[2].target_speaker_idx + 1
            a == Source(kr)
        IN  /\ kr[2].delays[t] > 0
            /\ \E i \in 1..Len(a.durations) :
                kr[2].delays[i] + a.durations[i] > a.durations[t]

(***************************************************************************)
(* C4: with trim_nontarget unset, every record has start = 0 and duration  *)
(* = the largest delays[i] + durations[i] over the speakers, on the delays *)
(* stored in the record (after suppress_delay / overlap_ratio).            *)
(***************************************************************************)
C4_UntrimmedIsWholeMixture ==
    (args.routine = "mix" /\ ~IsSet(args.trim_nontarget)) =>
        \A kr \in MixEmitted :
            LET a == Source(kr)
                ends == {kr[2].delays[i] + a.durations[i] : i \in 1..Len(a.durations)}
            IN  /\ kr[2].start = 0
                /\ kr[2].duration \in ends
                /\ \A x \in ends : x <= kr[2].duration
                /\ Len(kr[2].delays) = Len(a.durations)

\* an untrimmed record whose mixture ends later than its longest utterance,
\* with rewritten delays
C4_Witness ==
    /\ args.routine = "mix"
    /\ ~IsSet(args.trim_nontarget)
    /\ IsSet(args.overlap_ratio)
    /\ \E kr \in MixEmitted :
        /\ \A i \in 1..Len(Source(kr).durations) :
            kr[2].duration > Source(kr).durations[i]
        /\ kr[2].delays # Source(kr).delays

(***************************************************************************)
(* C5: with overlap_ratio = r in [0, 1], every record with                 *)
(* target_speaker_idx = t, in the written manifest as well as while it is  *)
(* accumulated, has delays[t] = 0 and delays[i] = (1 - r) * durations[t]   *)
(* for every other i, and as many delays as wavs; the delays of a later    *)
(* target never alter those of a record emitted for an earlier one.        *)
(***************************************************************************)
C5_OverlapDelays ==
    (args.routine = "mix" /\ IsSet(args.overlap_ratio)) =>
        \A kr \in MixEmitted :
            LET t == kr[2].target_speaker_idx + 1
                r == Val(args.overlap_ratio)
            IN  /\ Len(kr[2].delays) = Len(kr[2].wavs)
                /\ kr[2].delays[t] = 0
                /\ \A i \in 1..Len(kr[2].delays) :
                    i # t => kr[2].delays[i] * RatioDen =
                                (RatioDen - r) * Source(kr).durations[t]

\* a written manifest holding the records of two targets of one mixture
\* whose rewritten delays differ
C5_Witness ==
    /\ args.routine = "mix"
    /\ IsSet(args.overlap_ratio)
    /\ pc = "done"
    /\ \E p \in Written : \E k1 \in Elements(fs[p]), k2 \in Elements(fs[p]) :
        /\ Source(k1) = Source(k2)
        /\ k1[2].target_speaker_idx = 0
        /\ k2[2].target_speaker_idx = 1
        /\ k1[2].delays[2] # k2[2].delays[1]
        /\ k1[2].delays[2] > 0

(***************************************************************************)
(* C6: prepare_librispeechmix called with suppress_delay = True and        *)
(* overlap_ratio set (in range or not), on a non-empty split list, fails   *)
(* with a ValueError whatever the other arguments are: once the argument   *)
(* checks have run, the run has failed.                                    *)
(***************************************************************************)
C6_BothSetFails ==
    (/\ args.routine = "mix"
     /\ args.splits # <<>>
     /\ args.suppress_delay = Some(TRUE)
     /\ IsSet(args.overlap_ratio)) =>
        (PastCheck => Failed("ValueError"))

\* the call is refused although overlap_ratio = 0 is in range and every
\* split is recognized
C6_Witness ==
    /\ args.routine = "mix"
    /\ args.suppress_delay = Some(TRUE)
    /\ args.overlap_ratio = Some(0)
    /\ \A i \in 1..Len(args.splits) : IsSet(Category(args.splits[i]))
    /\ Failed("ValueError")
    /\ Val(err).what = "suppress_delay/overlap_ratio"

(***************************************************************************)
(* C7: overlap_ratio < 0 or > 1 always fails with a ValueError; 0, 1 and   *)
(* the values between them pass the range check: the run never fails with  *)
(* the range error, and with suppress_delay unset and recognized splits it *)
(* does not fail on its arguments at all.                                  *)
(***************************************************************************)
C7_OverlapRange ==
    (args.routine = "mix" /\ IsSet(args.overlap_ratio)) =>
        LET k == Val(args.overlap_ratio)
        IN  /\ (k < 0 \/ k > RatioDen) => (PastCheck => Failed("ValueError"))
            /\ (0 <= k /\ k <= RatioDen) =>
                /\ ~(Failed("ValueError") /\ Val(err).what = "overlap_ratio")
                /\ (/\ ~IsSet(args.suppress_delay)
                    /\ args.splits # <<>>
                    /\ \A i \in 1..Len(args.splits) : IsSet(Category(args.splits[i])))
                   => ~Failed("ValueError")

\* an overlap_ratio above 1, alone among the arguments at fault, is refused
\* by the range check
C7_Witness ==
    /\ args.routine = "mix"
    /\ IsSet(args.overlap_ratio)
    /\ Val(args.overlap_ratio) > RatioDen
    /\ ~IsSet(args.suppress_delay)
    /\ Failed("ValueError")
    /\ Val(err).what = "overlap_ratio"

\* the category prefixes each routine recognizes, as the claims state them
Recognized == IF args.routine = "mix" THEN {"train", "dev", "test"} ELSE {"dev", "test"}

IsRecognized(split) == \E c \in Recognized : StartsWith(split, c)

\* the splits of `list` that start with prefix c, in the order of `list`
OfCategory(list, c) == SelectSeq(list, LAMBDA x : c \in Recognized /\ StartsWith(x, c))

ArgumentsValid ==
    /\ args.splits # <<>>
    /\ ~(IsSet(args.suppress_delay) /\ IsSet(args.overlap_ratio))
    /\ IsSet(args.overlap_ratio) =>
        (0 <= Val(args.overlap_ratio) /\ Val(args.overlap_ratio) <= RatioDen)

(***************************************************************************)
(* C8: for a non-empty split list whose names all start with a recognized  *)
(* prefix, grouping is not refused, and each category's list is exactly    *)
(* the splits with that prefix, every occurrence kept, in input order (so  *)
(* the lists together are a permutation of the input); while the loop      *)
(* runs, the same holds of the splits seen so far.                         *)
(***************************************************************************)
C8_GroupingPartitions ==
    (/\ ArgumentsValid
     /\ \A i \in 1..Len(args.splits) : IsRecognized(args.splits[i])) =>
        /\ ~Failed("ValueError")
        /\ PastCheck =>
            LET seen == IF pc = "grouping" THEN SubSeq(args.splits, 1, split_i - 1)
                        ELSE args.splits
            IN  /\ \A c \in Categories : groups[c] = OfCategory(seen, c)
                /\ Len(groups["train"]) + Len(groups["dev"]) + Len(groups["test"])
                        = Len(seen)
                /\ Elements(group_names) = {c \in Categories : groups[c] # <<>>}
                /\ Len(group_names) = Cardinality(Elements(group_names))

\* grouping is complete: two splits of one category separated by a split of
\* another one
C8_Witness ==
    /\ pc = "groups"
    /\ Len(args.splits) = 3
    /\ Len(groups["dev"]) = 2
    /\ groups["dev"][1] # groups["dev"][2]
    /\ ~StartsWith(args.splits[2], "dev")

(***************************************************************************)
(* C9: an empty split list is refused with a ValueError by both routines;  *)
(* a split that starts with no recognized prefix ("train", "dev", "test"   *)
(* for prepare_librispeechmix; "dev", "test" for prepare_librispeech_mix,  *)
(* so that a "train" split is refused there) makes the run fail with a     *)
(* ValueError before any group is processed, and the error of the grouping *)
(* loop names the first such split of the list.                            *)
(***************************************************************************)
C9_UnrecognizedSplitFails ==
    LET bad == {i \in 1..Len(args.splits) : ~IsRecognized(args.splits[i])}
        first == CHOOSE i \in bad : \A j \in bad : i <= j
    IN  /\ args.splits = <<>> =>
            (PastCheck => Failed("ValueError") /\ Val(err).what = "splits")
        /\ bad # {} =>
            /\ pc \in {"check", "grouping", "failed"}
            /\ pc = "failed" => Failed("ValueError")
            /\ (pc = "failed" /\ ArgumentsValid) =>
                (Val(err).what = "split" /\ Val(err).arg = args.splits[first])

\* the simple routine refuses a "train" split that follows a split it accepts
C9_Witness ==
    /\ args.routine = "simple"
    /\ Failed("ValueError")
    /\ Val(err).what = "split"
    /\ StartsWith(Val(err).arg, "train")
    /\ split_i = 2

(***************************************************************************)
(* C10: every configuration error of prepare_librispeechmix (empty splits, *)
(* suppress_delay with overlap_ratio, overlap_ratio out of range, an       *)
(* unrecognized split at any position) is raised before any annotation     *)
(* file is looked up or read and before any file is created or modified:   *)
(* a call with such arguments never performs a file operation, and a run   *)
(* that failed with a ValueError has performed none.                       *)
(***************************************************************************)
C10_ConfigErrorBeforeIO ==
    args.routine = "mix" =>
        LET faulty == \/ ~ArgumentsValid
                      \/ \E i \in 1..Len(args.splits) : ~IsRecognized(args.splits[i])
        IN  (faulty \/ Failed("ValueError")) => (io = <<>> /\ fs = fs0)

\* an unrecognized split is refused after a recognized one whose annotation
\* file exists
C10_Witness ==
    /\ args.routine = "mix"
    /\ Failed("ValueError")
    /\ Val(err).what = "split"
    /\ split_i = 2
    /\ InputJsonl(args, args.splits[1]) \in DOMAIN fs
    /\ groups # [c \in Categories |-> <<>>]

(***************************************************************************)
(* C11: when the annotation file of a requested split is missing, the run  *)
(* fails with a RuntimeError naming it and stops; the manifests of the     *)
(* categories before the failing one (categories are processed in order of *)
(* first appearance in the split list) are the only files written, and     *)
(* every other file, the manifest of the failing category and of the later *)
(* ones included, is as it was when the call was made.  A run that needs a *)
(* missing file never completes.                                           *)
(***************************************************************************)
FirstOf(c) ==
    CHOOSE i \in 1..Len(args.splits) :
        /\ StartsWith(args.splits[i], c)
        /\ \A j \in 1..(i - 1) : ~StartsWith(args.splits[j], c)

C11_MissingFileFails ==
    /\ Failed("RuntimeError") =>
        /\ Val(err).arg = CurrentPath
        /\ CurrentPath \notin DOMAIN fs0
        /\ ~ENABLED Next
        /\ \A i \in 1..Len(group_names), j \in 1..Len(group_names) :
            i < j => FirstOf(group_names[i]) < FirstOf(group_names[j])
        /\ Written = {OutputJson(Val(save_folder), group_names[j]) : j \in 1..(group_i - 1)}
        /\ \A j \in group_i..Len(group_names) :
            OutputJson(Val(save_folder), group_names[j]) \notin Written
        /\ \A p \in (DOMAIN fs \cup DOMAIN fs0) \ Written :
            p \in DOMAIN fs /\ p \in DOMAIN fs0 /\ fs[p] = fs0[p]
    /\ (/\ ArgumentsValid
        /\ \A i \in 1..Len(args.splits) : IsRecognized(args.splits[i])
        /\ \E i \in 1..Len(args.splits) : InputJsonl(args, args.splits[i]) \notin DOMAIN fs0)
       => pc # "done"

\* the second category fails on its second split: the first category's
\* manifest is written, the stale manifest of the failing one is untouched
\* although records were accumulated for it
C11_Witness ==
    /\ Failed("RuntimeError")
    /\ group_i = 2
    /\ gsplit_i = 2
    /\ emit_log # <<>>
    /\ OutputJson(Val(save_folder), group_names[1]) \in DOMAIN fs
    /\ OutputJson(Val(save_folder), group_names[2]) \in DOMAIN fs0

(***************************************************************************)
(* C12: with num_targets = k > 0, every record emitted by the mix-aware    *)
(* routine has target_speaker_idx in 0..k-1 (so a mixture has at most k    *)
(* distinct ones); with num_enrolls = m > 0, at most m records are         *)
(* assigned, and at most m are written, for one mixture and target index.  *)
(***************************************************************************)
C12_Caps ==
    args.routine = "mix" =>
        /\ (IsSet(args.num_targets) /\ Val(args.num_targets) > 0) =>
            /\ \A kr \in MixEmitted :
                kr[2].target_speaker_idx \in 0..(Val(args.num_targets) - 1)
            /\ \A a \in AllAnnotations :
                Cardinality({kr[2].target_speaker_idx :
                                kr \in {x \in MixEmitted : Source(x) = a}})
                    <= Val(args.num_targets)
        /\ (IsSet(args.num_enrolls) /\ Val(args.num_enrolls) > 0) =>
            \A a \in AllAnnotations, t \in 0..2 :
                LET prefix == a.id \o "_text-" \o ToString(t) \o "_"
                IN  /\ Cardinality({i \in 1..Len(emit_log) :
                                        StartsWith(emit_log[i][1], prefix)})
                            <= Val(args.num_enrolls)
                    /\ Cardinality({kr \in MixEmitted : StartsWith(kr[1], prefix)})
                            <= Val(args.num_enrolls)

\* both caps bite: a written record of a mixture with more texts than
\* num_targets and more enrollment utterances than num_enrolls
C12_Witness ==
    /\ args.routine = "mix"
    /\ pc = "done"
    /\ IsSet(args.num_targets)
    /\ IsSet(args.num_enrolls)
    /\ \E kr \in MixEmitted :
        /\ Len(Source(kr).texts) > Val(args.num_targets)
        /\ Len(Source(kr).speaker_profile[kr[2].target_speaker_idx + 1])
                > Val(args.num_enrolls)

(***************************************************************************)
(* C13: every record of the mix-aware routine comes from a mixture M, a    *)
(* target index t and an enrollment path e of that target as annotated: it *)
(* is stored under "M_text-t_e", has target_speaker_idx = t and wrd =      *)
(* texts[t].  The mixture mix1 (wavs a.wav and b.wav, delays 0.0 and 1.5,  *)
(* durations 2.0 and 2.0, text HELLO WORLD, one enrollment enr1.wav) with  *)
(* no options yields exactly one entry, "mix1_text-0_enr1.wav", with start *)
(* 0.0 and duration 3.5.                                                   *)
(***************************************************************************)
IsExampleRun ==
    /\ args.routine = "mix"
    /\ ExampleRecord \in AllAnnotations
    /\ pc = "done"

C13_KeyAndFields ==
    /\ \A kr \in MixEmitted :
        \E a \in AllAnnotations :
            LET t == kr[2].target_speaker_idx
            IN  /\ t + 1 \in 1..Len(a.texts)
                /\ t + 1 \in 1..Len(a.speaker_profile_index)
                /\ \E e \in Elements(a.speaker_profile[a.speaker_profile_index[t + 1] + 1]) :
                    kr[1] = a.id \o "_text-" \o ToString(t) \o "_" \o e
                /\ kr[2].wrd = a.texts[t + 1]
    /\ IsExampleRun =>
        /\ Written = {"LSM/dev.json"}
        /\ Len(fs["LSM/dev.json"]) = 1
        /\ fs["LSM/dev.json"][1][1] = "mix1_text-0_enr1.wav"
        /\ fs["LSM/dev.json"][1][2].start = 0
        /\ 2 * fs["LSM/dev.json"][1][2].duration = 7 * TicksPerSecond
        /\ fs["LSM/dev.json"][1][2].target_speaker_idx = 0
        /\ fs["LSM/dev.json"][1][2].wrd = "HELLO WORLD"

\* the example's manifest is written, and it holds a record
C13_Witness ==
    /\ IsExampleRun
    /\ "LSM/dev.json" \in Written
    /\ fs["LSM/dev.json"] # <<>>

(***************************************************************************)
(* C14: when records accumulated for one category compute the same         *)
(* identifier, no error is raised (a run that collided fails only on a     *)
(* missing annotation file, and completes when none is missing); the       *)
(* mapping (while accumulated and as written) holds each identifier once,  *)
(* with the record assigned to it last in processing order, and has as     *)
(* many entries as there are distinct                                      *)
(* identifiers.  Both routines.                                            *)
(***************************************************************************)
\* the index in emit_log of the last assignment to key k
LastAssigned(k) ==
    CHOOSE i \in 1..Len(emit_log) :
        /\ emit_log[i][1] = k
        /\ \A j \in (i + 1)..Len(emit_log) : emit_log[j][1] # k

\* emit_log assigns some identifier more than once
Collides == \E i \in 1..Len(emit_log), j \in 1..Len(emit_log) :
                i < j /\ emit_log[i][1] = emit_log[j][1]

\* doc is the mapping that the assignments of emit_log build
MappingOf(doc) ==
    /\ \A i \in 1..Len(doc), j \in 1..Len(doc) : doc[i][1] = doc[j][1] => i = j
    /\ {doc[i][1] : i \in 1..Len(doc)} = {emit_log[i][1] : i \in 1..Len(emit_log)}
    /\ Len(doc) = Cardinality({emit_log[i][1] : i \in 1..Len(emit_log)})
    /\ \A i \in 1..Len(doc) : doc[i][2] = emit_log[LastAssigned(doc[i][1])][2]

C14_LastWins ==
    /\ pc \in {"splits", "lines", "targets"} => MappingOf(Serialize(output_entries, heap))
    /\ (pc = "groups" /\ group_i > 1) =>
        MappingOf(fs[OutputJson(Val(save_folder), group_names[group_i - 1])])
    /\ (Collides /\ IsSet(err)) =>
        (Failed("RuntimeError") /\ Val(err).arg \notin DOMAIN fs0)
    /\ (/\ args.splits # <<>>
        /\ \A s \in CollidingSplits :
            /\ InputJsonl(args, s) \in DOMAIN fs0
            /\ fs0[InputJsonl(args, s)] = CollidingLines(s))
       => (pc # "failed" /\ (~ENABLED Next => pc = "done"))

\* a category is written whose records collided both ways: a duplicate
\* enrollment path of one target, and the same mixture in two splits with
\* other texts, the later one kept
C14_Witness ==
    /\ pc = "groups"
    /\ group_i > 1
    /\ Collides
    /\ \E i \in 1..(Len(emit_log) - 1) :
        /\ emit_log[i][1] = emit_log[i + 1][1]
        /\ \E j \in (i + 2)..Len(emit_log) :
            /\ emit_log[j][1] = emit_log[i][1]
            /\ emit_log[j][2] # emit_log[i][2]
    /\ Len(fs[OutputJson(Val(save_folder), group_names[group_i - 1])]) < Len(emit_log)

(***************************************************************************)
(* C15: when the routine is called a second time with the same arguments   *)
(* on the same annotation files, every file is after the second call what  *)
(* it was after the first: same keys, same key order, same values.  Each   *)
(* write of the second call puts back the content the file had, so the     *)
(* file system equals that left by the first call throughout.              *)
(***************************************************************************)
C15_RerunIdempotent ==
    IsSet(fs1) =>
        /\ DOMAIN fs = DOMAIN Val(fs1)
        /\ \A p \in DOMAIN fs : fs[p] = Val(fs1)[p]
        /\ pc # "failed"
        /\ ~ENABLED Next => (pc = "done" /\ fs = Val(fs1))

\* the second call has completed after rewriting the manifests of two
\* categories, one of them with several records
C15_Witness ==
    /\ IsSet(fs1)
    /\ pc = "done"
    /\ Cardinality(Written) = 2
    /\ \E p \in Written : Len(fs[p]) > 1

(***************************************************************************)
(* C16: every emitted record, of the mix-aware routine and of the simple   *)
(* routine alike, stores the transcription of its target under the field   *)
(* `wrd`, the field the training text pipeline reads.  The simple routine  *)
(* stores it under `transcription`, and its records have no `wrd`.         *)
(***************************************************************************)
C16_TextUnderWrd ==
    \A kr \in Emitted :
        /\ "wrd" \in DOMAIN kr[2]
        /\ \E a \in AllAnnotations : kr[2].wrd \in Elements(a.texts)

(***************************************************************************)
(* C17: every path of an emitted record is the annotation's relative path  *)
(* behind the placeholder.  Mix-aware routine: wavs has the annotation's   *)
(* wavs in number and order, each as "{DATA_ROOT}/" + path, and enroll_wav *)
(* is "{DATA_ROOT}/" + path.  Simple routine: mixed_wav and enroll_wav are *)
(* "{DATA_ROOT}/data/" + path.  The key ends with the enrollment path as   *)
(* annotated.                                                              *)
(***************************************************************************)
C17_PlaceholderPaths ==
    \A kr \in Emitted :
        \E a \in AllAnnotations, t \in 0..2 :
            /\ t < Len(a.speaker_profile_index)
            /\ \E e \in Elements(a.speaker_profile[a.speaker_profile_index[t + 1] + 1]) :
                /\ kr[1] = a.id \o "_text-" \o ToString(t) \o "_" \o e
                /\ IF args.routine = "mix"
                   THEN /\ Len(kr[2].wavs) = Len(a.wavs)
                        /\ \A i \in 1..Len(a.wavs) :
                            kr[2].wavs[i] = "{DATA_ROOT}/" \o a.wavs[i]
                        /\ kr[2].enroll_wav = "{DATA_ROOT}/" \o e
                   ELSE /\ kr[2].mixed_wav = "{DATA_ROOT}/data/" \o a.mixed_wav
                        /\ kr[2].enroll_wav = "{DATA_ROOT}/data/" \o e

\* a manifest of the mix-aware routine is written with a record of a
\* mixture of several wavs
C17_Witness ==
    /\ args.routine = "mix"
    /\ pc = "done"
    /\ \E p \in Written : \E kr \in Elements(fs[p]) :
        /\ Len(kr[2].wavs) > 1
        /\ kr[2].wavs[1] # kr[2].wavs[2]
        /\ EndsWith(kr[1], ".flac")

(***************************************************************************)
(* C18: a trim_nontarget no shorter than the mixture (max_duration, on the *)
(* delays stored in the record) gives the window of an unset               *)
(* trim_nontarget: start = 0 and duration = max_duration.  The code's      *)
(* duration is max_duration, but its start is delays[t], not 0.            *)
(***************************************************************************)
C18_LongTrimIsUntrimmed ==
    (args.routine = "mix" /\ IsSet(args.trim_nontarget)) =>
        \A kr \in MixEmitted :
            LET max_duration == MaxDuration(kr[2].delays, Source(kr).durations)
            IN  Val(args.trim_nontarget) >= max_duration =>
                    /\ kr[2].start = 0
                    /\ kr[2].duration = max_duration

(***************************************************************************)
(* C19: suppress_delay must be None when overlap_ratio is set:             *)
(* suppress_delay = False with overlap_ratio set is refused with the same  *)
(* ValueError as suppress_delay = True.  With overlap_ratio unset,         *)
(* suppress_delay = False is accepted (the run fails on no argument check  *)
(* and, splits recognized and files present, does not fail) and the        *)
(* records are those of suppress_delay = None: the delays as annotated,    *)
(* and the window computed from them.                                      *)
(***************************************************************************)
C19_FalseIsSet ==
    args.routine = "mix" =>
        /\ (args.splits # <<>> /\ IsSet(args.suppress_delay) /\ IsSet(args.overlap_ratio)) =>
            (PastCheck =>
                (Failed("ValueError") /\ Val(err).what = "suppress_delay/overlap_ratio"))
        /\ (args.suppress_delay \in {None, Some(FALSE)} /\ ~IsSet(args.overlap_ratio)) =>
            /\ Failed("ValueError") => Val(err).what \in {"splits", "split"}
            /\ (/\ args.splits # <<>>
                /\ \A i \in 1..Len(args.splits) :
                    /\ IsRecognized(args.splits[i])
                    /\ InputJsonl(args, args.splits[i]) \in DOMAIN fs0)
               => pc # "failed"
            /\ \A kr \in MixEmitted :
                LET a == Source(kr)
                    w == Window(a.delays, a.durations, kr[2].target_speaker_idx,
                                args.trim_nontarget)
                IN  /\ kr[2].delays = a.delays
                    /\ kr[2].start = w.start
                    /\ kr[2].duration = w.duration

\* suppress_delay = False is refused with an overlap_ratio in range and
\* recognized splits
C19_Witness ==
    /\ args.routine = "mix"
    /\ args.suppress_delay = Some(FALSE)
    /\ IsSet(args.overlap_ratio)
    /\ ~OutOfRange(Val(args.overlap_ratio))
    /\ \A i \in 1..Len(args.splits) : IsRecognized(args.splits[i])
    /\ Failed("ValueError")
    /\ Val(err).what = "suppress_delay/overlap_ratio"

(***************************************************************************)
(* C20: with suppress_delay = True, every record, for every target index   *)
(* and every enrollment, accumulated or written, has as many delays as the *)
(* annotation and all of them 0; once the first target of a mixture is     *)
(* expanded, the routine's delays stay all 0 through the later targets.    *)
(***************************************************************************)
C20_SuppressedDelays ==
    (args.routine = "mix" /\ args.suppress_delay = Some(TRUE)) =>
        /\ \A kr \in MixEmitted :
            /\ Len(kr[2].delays) = Len(Source(kr).delays)
            /\ \A i \in 1..Len(kr[2].delays) : kr[2].delays[i] = 0
        /\ (pc = "targets" /\ target_i > 0) =>
            /\ Len(heap[delays]) = Len(Val(input_entry).delays)
            /\ \A i \in 1..Len(heap[delays]) : heap[delays][i] = 0

\* written records of the first and of a later target of one mixture whose
\* annotated delays are not all 0, the later target's own included
C20_Witness ==
    /\ args.routine = "mix"
    /\ args.suppress_delay = Some(TRUE)
    /\ pc = "done"
    /\ \E p \in Written : \E k1 \in Elements(fs[p]), k2 \in Elements(fs[p]) :
        /\ Source(k1) = Source(k2)
        /\ k1[2].target_speaker_idx = 0
        /\ k2[2].target_speaker_idx > 0
        /\ Source(k2).delays[k2[2].target_speaker_idx + 1] > 0

(***************************************************************************)
(* C21: the records of a mixture depend on its annotation record and on    *)
(* the options only.  Whatever mixtures, splits and categories were        *)
(* processed before it, every emitted record has the wavs, delays, start,  *)
(* duration and text that its annotation record, target index and          *)
(* enrollment path give under the options of the call.                     *)
(***************************************************************************)
\* the delays in effect for target t of annotation a under the options
DelaysInEffect(a, t) ==
    IF IsSet(args.overlap_ratio)
    THEN [i \in 1..Len(a.wavs) |->
            IF i = t + 1 THEN 0
            ELSE ((RatioDen - Val(args.overlap_ratio)) * a.durations[t + 1]) \div RatioDen]
    ELSE IF args.suppress_delay = Some(TRUE) THEN [i \in 1..Len(a.delays) |-> 0]
    ELSE a.delays

\* the record of annotation a, target t and enrollment path e
RecordOf(a, t, e) ==
    LET d == DelaysInEffect(a, t)
        w == Window(d, a.durations, t, args.trim_nontarget)
    IN  [wavs |-> [i \in 1..Len(a.wavs) |-> "{DATA_ROOT}/" \o a.wavs[i]],
         enroll_wav |-> "{DATA_ROOT}/" \o e,
         delays |-> d,
         start |-> w.start,
         duration |-> w.duration,
         target_speaker_idx |-> t,
         wrd |-> a.texts[t + 1]]

C21_NoLeak ==
    \A kr \in MixEmitted :
        \E a \in AllAnnotations :
            LET t == kr[2].target_speaker_idx
            IN  /\ t < Len(a.texts)
                /\ \E e \in Elements(a.speaker_profile[a.speaker_profile_index[t + 1] + 1]) :
                    /\ kr[1] = a.id \o "_text-" \o ToString(t) \o "_" \o e
                    /\ kr[2] = RecordOf(a, t, e)

\* two categories are written under rewritten delays; one manifest holds
\* the records of two mixtures whose delays differ, the later one's
\* annotated delays unlike the rewritten ones
C21_Witness ==
    /\ args.routine = "mix"
    /\ IsSet(args.overlap_ratio) \/ args.suppress_delay = Some(TRUE)
    /\ pc = "done"
    /\ Cardinality(Written) = 2
    /\ \E p \in Written : \E i \in 1..Len(fs[p]), j \in 1..Len(fs[p]) :
        /\ i < j
        /\ Source(fs[p][i]) # Source(fs[p][j])
        /\ Source(fs[p][j]).delays # fs[p][j][2].delays
        /\ Source(fs[p][i]).delays # Source(fs[p][j]).delays

(***************************************************************************)
(* C22: one annotation record gives, for each t below                      *)
(* min(num_targets, len(texts)), one record for each of the leading        *)
(* min(num_enrolls, len(profile of target t)) enrollment paths of the      *)
(* target's speaker (an unset option is no cap), targets and enrollments   *)
(* in annotation order: the identifiers assigned for a category are those  *)
(* of the records read so far, in order, and with distinct identifiers the *)
(* written mapping has the sum of these counts as its number of entries.   *)
(***************************************************************************)
Capped(n, len) == IF IsSet(n) THEN Min2(Val(n), len) ELSE len

ProfileOf(a, t) == a.speaker_profile[a.speaker_profile_index[t + 1] + 1]

\* sum over t in 0..k-1 of min(num_enrolls, len(profile of t))
RECURSIVE SumEnrolls(_, _)
SumEnrolls(a, k) ==
    IF k = 0 THEN 0
    ELSE SumEnrolls(a, k - 1) + Capped(args.num_enrolls, Len(ProfileOf(a, k - 1)))

\* the identifiers of the targets 0..k-1 of a, in annotation order
RECURSIVE KeysUpTo(_, _)
KeysUpTo(a, k) ==
    IF k = 0 THEN <<>>
    ELSE KeysUpTo(a, k - 1) \o
         [j \in 1..Capped(args.num_enrolls, Len(ProfileOf(a, k - 1))) |->
            a.id \o "_text-" \o ToString(k - 1) \o "_" \o ProfileOf(a, k - 1)[j]]

TargetsOf(a) == Capped(args.num_targets, Len(a.texts))

\* the identifiers of the first n records of `lines`
RECURSIVE KeysOfLines(_, _)
KeysOfLines(lines, n) ==
    IF n = 0 THEN <<>>
    ELSE KeysOfLines(lines, n - 1) \o KeysUpTo(lines[n], TargetsOf(lines[n]))

\* the identifiers of the first n splits of the current group
RECURSIVE KeysOfSplits(_)
KeysOfSplits(n) ==
    IF n = 0 THEN <<>>
    ELSE KeysOfSplits(n - 1) \o
         KeysOfLines(fs0[InputJsonl(args, Group[n])], Len(fs0[InputJsonl(args, Group[n])]))

\* the identifiers of everything expanded so far for the current group
KeysSoFar ==
    KeysOfSplits(gsplit_i - 1) \o
    (IF pc \in {"lines", "targets"}
     THEN KeysOfLines(fs0[CurrentPath], line_i - 1) \o
          (IF pc = "targets" THEN KeysUpTo(Val(input_entry), target_i) ELSE <<>>)
     ELSE <<>>)

C22_RecordCount ==
    (args.routine = "mix" /\ pc \in {"splits", "lines", "targets"}) =>
        /\ [i \in 1..Len(emit_log) |-> emit_log[i][1]] = KeysSoFar
        /\ \A a \in AllAnnotations :
            Len(KeysUpTo(a, TargetsOf(a))) = SumEnrolls(a, TargetsOf(a))
        /\ (pc = "targets" /\ target_i = TargetsOf(Val(input_entry))) =>
            Len(emit_log) = Len(KeysOfSplits(gsplit_i - 1))
                            + Len(KeysOfLines(fs0[CurrentPath], line_i - 1))
                            + SumEnrolls(Val(input_entry), TargetsOf(Val(input_entry)))
        /\ ~Collides => Len(output_entries) = Len(emit_log)

\* the only record of the run, two targets of two enrollment paths each, is
\* expanded under num_enrolls = 1: two records, of the leading paths
C22_Witness ==
    /\ args.routine = "mix"
    /\ args.splits = <<"train-2mix">>
    /\ args.num_enrolls = Some(1)
    /\ args.num_targets # Some(1)
    /\ pc = "splits"
    /\ gsplit_i = 2
    /\ Len(output_entries) = 2
    /\ SumEnrolls(AnnotLines("train-2mix")[1], 2) = 2

(***************************************************************************)
(* C23: when a run has completed, a manifest has been written for exactly  *)
(* the categories with a requested split, once each, after every split of  *)
(* the category was read; its identifiers are those of the records of all  *)
(* the category's splits and of no other; the files of the other           *)
(* categories, and every other file, are as they were.  Both routines.     *)
(***************************************************************************)
\* the identifiers of the records of the splits grouped under category c
KeysOfCategory(c) ==
    UNION {Elements(KeysOfLines(fs0[InputJsonl(args, sp)], Len(fs0[InputJsonl(args, sp)]))) :
            sp \in Elements(groups[c])}

\* the positions in io of the operation `op` on `path`
Positions(op, path) == {i \in 1..Len(io) : io[i] = <<op, path>>}

C23_OneManifestPerCategory ==
    pc = "done" =>
        /\ Written = {OutputJson(Val(save_folder), c) :
                        c \in {x \in Categories :
                                \E i \in 1..Len(args.splits) : StartsWith(args.splits[i], x)}}
        /\ \A c \in Categories :
            LET manifest == OutputJson(Val(save_folder), c)
            IN  IF groups[c] # <<>>
                THEN /\ Cardinality(Positions("write", manifest)) = 1
                     /\ \A sp \in Elements(groups[c]) :
                         /\ Positions("open", InputJsonl(args, sp)) # {}
                         /\ \A i \in Positions("open", InputJsonl(args, sp)),
                               w \in Positions("write", manifest) : i < w
                     /\ {fs[manifest][i][1] : i \in 1..Len(fs[manifest])} = KeysOfCategory(c)
                ELSE /\ Positions("write", manifest) = {}
                     /\ manifest \in DOMAIN fs <=> manifest \in DOMAIN fs0
                     /\ manifest \in DOMAIN fs => fs[manifest] = fs0[manifest]
        /\ \A p \in DOMAIN fs \ Written : p \in DOMAIN fs0 /\ fs[p] = fs0[p]
        /\ DOMAIN fs0 \subseteq DOMAIN fs

\* a completed run over two splits of one category and a split of another,
\* none of the third: two manifests, the first of them merged
C23_Witness ==
    /\ pc = "done"
    /\ Len(groups["dev"]) = 2
    /\ groups["dev"][1] # groups["dev"][2]
    /\ groups["train"] # <<>>
    /\ groups["test"] = <<>>
    /\ Cardinality(Written) = 2
    /\ Len(fs[OutputJson(Val(save_folder), "dev")]) > 2
    /\ OutputJson(Val(save_folder), "test") \notin DOMAIN fs

(***************************************************************************)
(* C24: for records with non-negative delays and durations and no more     *)
(* texts than wavs, under every accepted setting of suppress_delay,        *)
(* overlap_ratio and trim_nontarget, every emitted record has start >= 0,  *)
(* every delay >= 0, and durations[t] <= duration <= max_duration, the     *)
(* largest delays[i] + durations[i] on the delays of the record.           *)
(***************************************************************************)
C24_WindowBounds ==
    \A kr \in MixEmitted :
        LET a == Source(kr)
            t == kr[2].target_speaker_idx + 1
            ends == {kr[2].delays[i] + a.durations[i] : i \in 1..Len(a.durations)}
        IN  /\ kr[2].start >= 0
            /\ \A i \in 1..Len(kr[2].delays) : kr[2].delays[i] >= 0
            /\ a.durations[t] <= kr[2].duration
            /\ \E x \in ends : kr[2].duration <= x

\* a trimmed record strictly between its target's duration and its
\* mixture's, starting after 0
C24_Witness ==
    /\ args.routine = "mix"
    /\ IsSet(args.trim_nontarget)
    /\ \E kr \in MixEmitted :
        LET a == Source(kr)
            t == kr[2].target_speaker_idx + 1
        IN  /\ kr[2].start > 0
            /\ a.durations[t] < kr[2].duration
            /\ \E i \in 1..Len(a.durations) :
                kr[2].duration < kr[2].delays[i] + a.durations[i]

(***************************************************************************)
(* C25: overlap_ratio = 1 (suppress_delay unset) and suppress_delay = True *)
(* (overlap_ratio unset) give the same keys and the same records: under    *)
(* either, whatever num_targets, num_enrolls and trim_nontarget are, the   *)
(* identifiers are those of C22, which depend on neither option, and every *)
(* record is the one of its annotation, target and enrollment with all     *)
(* delays 0 and the window of these delays.                                *)
(***************************************************************************)
FullOverlapAsked ==
    \/ args.overlap_ratio = Some(RatioDen) /\ ~IsSet(args.suppress_delay)
    \/ args.suppress_delay = Some(TRUE) /\ ~IsSet(args.overlap_ratio)

\* the record of a, t and e with every speaker starting at 0
FullOverlapRecord(a, t, e) ==
    LET zeros == [i \in 1..Len(a.delays) |-> 0]
        longest == CHOOSE x \in Elements(a.durations) :
                        \A y \in Elements(a.durations) : y <= x
        T == Val(args.trim_nontarget)
    IN  [wavs |-> [i \in 1..Len(a.wavs) |-> "{DATA_ROOT}/" \o a.wavs[i]],
         enroll_wav |-> "{DATA_ROOT}/" \o e,
         delays |-> zeros,
         start |-> 0,
         duration |-> IF IsSet(args.trim_nontarget)
                      THEN Min2(a.durations[t + 1] + T, longest)
                      ELSE longest,
         target_speaker_idx |-> t,
         wrd |-> a.texts[t + 1]]

C25_FullOverlap ==
    (args.routine = "mix" /\ FullOverlapAsked) =>
        /\ pc \in {"splits", "lines", "targets"} =>
            [i \in 1..Len(emit_log) |-> emit_log[i][1]] = KeysSoFar
        /\ \A kr \in MixEmitted :
            \E a \in AllAnnotations :
                LET t == kr[2].target_speaker_idx
                IN  /\ t < Len(a.texts)
                    /\ \E e \in Elements(ProfileOf(a, t)) :
                        /\ kr[1] = a.id \o "_text-" \o ToString(t) \o "_" \o e
                        /\ kr[2] = FullOverlapRecord(a, t, e)

\* a completed run with overlap_ratio = 1, capped and trimmed, over
\* mixtures whose annotated delays are not all 0
C25_Witness ==
    /\ args.routine = "mix"
    /\ args.overlap_ratio = Some(RatioDen)
    /\ IsSet(args.num_enrolls)
    /\ IsSet(args.trim_nontarget)
    /\ pc = "done"
    /\ \E kr \in MixEmitted :
        /\ Len(Source(kr).delays) > 1
        /\ Source(kr).delays[2] > 0
        /\ kr[2].duration > Source(kr).durations[kr[2].target_speaker_idx + 1]
        /\ kr[2].duration < MaxOf(Source(kr).durations)

====
